---------------------------- MODULE Spec2Model ----------------------------
(***************************************************************************)
(* Model of custom_components/eltako/select.py: the controller-priority    *)
(* translation helpers, the select platform's async_setup_entry and the    *)
(* ClimatePriority entity with its two handlers.                           *)
(***************************************************************************)
EXTENDS Integers, Sequences, FiniteSets, TLC

VARIABLES
    lib,        \* the attributes of eltakobus' A5_10_06 class (name -> enum)
    call,       \* the helper call in progress and what it returned
    config,     \* the device configuration handed to async_setup_entry
    pc,         \* position of async_setup_entry
    idx,        \* index of the loop of async_setup_entry
    entities,   \* the local list `entities` of async_setup_entry
    log,        \* the records LOGGER received at warning and critical level
    added,      \* the lists passed to async_add_entities, in call order
    ent,        \* the ClimatePriority entity under test
    events,     \* what hass.bus.fire received, in call order
    stats,      \* how the handler calls so far ended
    last,       \* the most recent handler call
    refreshes   \* schedule_update_ha_state requests not yet served by the host

vars == <<lib, call, config, pc, idx, entities, log, added, ent, events, stats,
          last, refreshes>>

enumVars == <<lib, call>>
setupVars == <<config, pc, idx, entities, log, added>>
entityVars == <<ent, events, stats, last, refreshes>>

----------------------------------------------------------------------------
(* Bounds of the model *)

MaxMembers == 2
MaxDevices == 3
MaxCalls == 3

----------------------------------------------------------------------------
(* Python values *)

\* Python's None where a str is expected; no str of the model equals it.
None == "<None>"

\* bool(s) of an optional str: None and "" are falsy.
Truthy(s) == s # None /\ s # ""

\* The values a member of the enum may carry.
IntV(n) == [kind |-> "int", n |-> n, s |-> ""]
TupV(n, s) == [kind |-> "tuple_str", n |-> n, s |-> s]
NoneV == [kind |-> "none", n |-> 0, s |-> ""]

\* str(value): "0" for 0, "(1, 'Auto')" for (1, "Auto"), "None" for None.
StrOfValue(v) ==
    CASE v.kind = "int" -> ToString(v.n)
      [] v.kind = "tuple_str" -> "(" \o ToString(v.n) \o ", '" \o v.s \o "')"
      [] OTHER -> "None"

\* A str(dev_id) that renders a missing id as "unknown".
StrOfIdUnknown(d) == IF d = None THEN "unknown" ELSE d

\* str(dev_id) as the %s of the log calls renders it.
StrOfId(d) == IF d = None THEN "None" ELSE d

----------------------------------------------------------------------------
(* The enum of the protocol library, as the helpers see it *)

NonePriority == [name |-> None, description |-> None, label |-> None,
                 value |-> NoneV]

Names == {"AUTO", "HOME", None}
Descriptions == {None, "0"}
Labels == {None, "HOME"}
Values == {IntV(0), TupV(1, "Auto")}

Members == [name : Names, description : Descriptions, label : Labels,
            value : Values]

\* find_by_description of the located class: missing, raising, a lookup by
\* the description attribute that returns None when nothing is found, or one
\* that raises then.
FindKinds == {"absent", "raises", "lookup", "lookup_or_raise"}

\* Members of a Python Enum carry distinct names; an object without a name
\* attribute (None here) may occur more than once.
DistinctNames(ms) ==
    \A i, j \in 1..Len(ms) :
        (i # j /\ ms[i].name # None) => ms[i].name # ms[j].name

\* getattr's result when the class attribute holds None, and the marker of a
\* class attribute that does not exist.
NoEnum == [isNone |-> TRUE, members |-> <<>>, find |-> "absent"]
Missing == [isNone |-> TRUE, members |-> <<>>, find |-> "no_attribute"]

EmptyEnum == [isNone |-> FALSE, members |-> <<>>, find |-> "absent"]

\* The class attributes of A5_10_06 under the two names the code probes: the
\* enum sits under neither name, the current one, the older one, or the
\* current one with another enum left under the older one.
Placements == {"neither", "current", "older", "both"}

Place(p, e) ==
    CASE p = "current" ->
             [ControllerPriority |-> e, Controller_Priority |-> Missing]
      [] p = "older" ->
             [ControllerPriority |-> Missing, Controller_Priority |-> e]
      [] p = "both" ->
             [ControllerPriority |-> e, Controller_Priority |-> EmptyEnum]
      [] OTHER ->
             [ControllerPriority |-> Missing, Controller_Priority |-> Missing]

\* A normal result and a raised exception of a helper.
Returned(v) == [raised |-> FALSE, ret |-> v]
Raised == [raised |-> TRUE, ret |-> 0]

----------------------------------------------------------------------------
(* The translation helpers, select.py lines 21-73 *)

\* getattr(A5_10_06, "ControllerPriority",
\*         getattr(A5_10_06, "Controller_Priority", None))
_get_controller_priority_enum(l) ==
    IF l.ControllerPriority # Missing THEN l.ControllerPriority
    ELSE IF l.Controller_Priority # Missing THEN l.Controller_Priority
    ELSE NoEnum

\* _priority_to_option(priority)
_priority_to_option(priority) ==
    IF priority = NonePriority THEN None
    ELSE LET desc == IF Truthy(priority.description) THEN priority.description
                     ELSE priority.label
             value == priority.value
         IN  IF Truthy(desc) THEN desc
             ELSE IF value.kind = "tuple_str" THEN value.s
             ELSE IF Truthy(priority.name) THEN priority.name
             ELSE StrOfValue(value)

\* The first of the member indices in hits, 0 (None) when there is none.
FirstIndex(hits) ==
    IF hits = {} THEN 0
    ELSE CHOOSE i \in hits : \A j \in hits : i <= j

\* enum.find_by_description(option) of the library.
find_by_description(enum, option) ==
    LET found == FirstIndex({ i \in 1..Len(enum.members) :
                                enum.members[i].description = option })
    IN  CASE enum.find = "raises" -> Raised
          [] enum.find = "lookup_or_raise" ->
                 IF found = 0 THEN Raised ELSE Returned(found)
          [] OTHER -> Returned(found)

\* A scan that compares the option with the members' names only.
ScanMembersByName(enum, option) ==
    LET Match(prio) == option = prio.name
    IN  FirstIndex({ i \in 1..Len(enum.members) : Match(enum.members[i]) })

\* The for loop of _priority_from_option, lines 50-54.
ScanMembers(enum, option) ==
    LET Match(prio) ==
            \/ option = _priority_to_option(prio)
            \/ option = prio.name
            \/ option = StrOfValue(prio.value)
    IN  FirstIndex({ i \in 1..Len(enum.members) : Match(enum.members[i]) })

\* A _priority_from_option without the try around find_by_description.
PriorityFromOptionUnguarded(l, option) ==
    LET enum == _get_controller_priority_enum(l)
    IN  IF enum.isNone \/ option = None THEN Returned(0)
        ELSE LET found == IF enum.find # "absent"
                          THEN find_by_description(enum, option)
                          ELSE Returned(0)
             IN  IF found.raised THEN Raised
                 ELSE IF found.ret # 0 THEN Returned(found.ret)
                 ELSE Returned(ScanMembers(enum, option))

\* _priority_from_option(option): the index of the member returned, 0 for None.
_priority_from_option(l, option) ==
    LET enum == _get_controller_priority_enum(l)
    IN  IF enum.isNone \/ option = None THEN Returned(0)
        ELSE LET found == IF enum.find # "absent"
                          THEN find_by_description(enum, option)
                          ELSE Returned(0)
             IN  IF ~found.raised /\ found.ret # 0 THEN Returned(found.ret)
                 ELSE Returned(ScanMembers(enum, option))

\* _priority_options()
_priority_options(l) ==
    LET enum == _get_controller_priority_enum(l)
    IN  IF enum.isNone THEN <<>>
        ELSE [i \in 1..Len(enum.members) |-> _priority_to_option(enum.members[i])]

\* hasattr(enum, "AUTO") / getattr(enum, "AUTO")
HasAuto(enum) == \E i \in 1..Len(enum.members) : enum.members[i].name = "AUTO"
GetAuto(enum) ==
    enum.members[CHOOSE i \in 1..Len(enum.members) :
                     enum.members[i].name = "AUTO"]

\* A _default_priority_option that does not look for AUTO.
DefaultPriorityOptionFirst(l) ==
    LET options == _priority_options(l)
    IN  IF Len(options) > 0 THEN options[1] ELSE None

\* _default_priority_option()
_default_priority_option(l) ==
    LET enum == _get_controller_priority_enum(l)
        options == _priority_options(l)
    IN  IF enum.isNone THEN None
        ELSE IF HasAuto(enum) THEN _priority_to_option(GetAuto(enum))
        ELSE IF Len(options) > 0 THEN options[1]
        ELSE None

----------------------------------------------------------------------------
(* ClimatePriority, select.py lines 108-151 *)

\* config_helpers.get_bus_event_type(gateway.base_id,
\*     EVENT_CLIMATE_PRIORITY_SELECTED, dev_id): one topic per device.
get_bus_event_type(dev_id) ==
    [event |-> "EVENT_CLIMATE_PRIORITY_SELECTED", dev_id |-> dev_id]

\* ClimatePriority.__init__
ClimatePriority(l, dev_id) ==
    LET options == _priority_options(l)
        default == _default_priority_option(l)
    IN  [dev_id |-> dev_id,
         name |-> "Priority",
         event_id |-> get_bus_event_type(dev_id),
         options |-> options,
         current_option |-> IF default = None /\ Len(options) > 0
                            THEN options[1] ELSE default]

\* The device id of the entity under test.
TestDevice == "FF-AA-80-01"

\* What latest_state.state may hold, and what the user may select.
States == {None, "unknown", "Comfort"}
Selections == {"Comfort", "HOME"}

\* The step of a handler at which an exception arises ("none": at no step).
LoadFaults == {"none", "log", "read", "compute", "fire", "refresh"}
SelectFaults == {"none", "log", "fire", "refresh"}

\* hass.bus.fire(event_id, {"priority": option})
BusEvent(event_id, option) == [event_type |-> event_id, priority |-> option]

NoCall == [handler |-> "none", arg |-> None, fault |-> "none",
           exception |-> "none", before |-> None, fired |-> 0]

\* The record of a handler call: its argument, the step that raised and the
\* exception that reached the host, the current option and the number of
\* events fired before the call.
CallRecord(handler, arg, fault, exception) ==
    [handler |-> handler, arg |-> arg, fault |-> fault,
     exception |-> exception, before |-> ent.current_option,
     fired |-> Len(events)]

\* The exception object raised at a step.
ExceptionAt(fault) == IF fault = "none" THEN "none" ELSE "raised at " \o fault

\* The except clause of load_value_initially, lines 130-132: the exception
\* that leaves the handler.
Reraise(e) == e

\* A load_value_initially that takes "unknown" for a persisted option.
LoadedOptionKeepingUnknown(l, before, state, fault) ==
    LET assigned == IF fault = "read" THEN before ELSE state
        computed == IF fault \in {"read", "compute"} THEN assigned
                    ELSE IF assigned = None
                         THEN _default_priority_option(l)
                         ELSE assigned
        handled == IF fault \in {"read", "compute"}
                   THEN _default_priority_option(l)
                   ELSE computed
    IN  IF fault = "log" THEN before ELSE handled

\* The current option load_value_initially leaves behind: nothing is assigned
\* when the logging of lines 123-124 raises; inside the try, line 126 assigns
\* the persisted state, lines 127-128 replace None and "unknown" by the
\* default, and the except clause assigns the default.
LoadedOption(l, before, state, fault) ==
    LET assigned == IF fault = "read" THEN before ELSE state
        computed == IF fault \in {"read", "compute"} THEN assigned
                    ELSE IF assigned \in {None, "unknown"}
                         THEN _default_priority_option(l)
                         ELSE assigned
        handled == IF fault \in {"read", "compute"}
                   THEN _default_priority_option(l)
                   ELSE computed
    IN  IF fault = "log" THEN before ELSE handled

\* A load_value_initially that broadcasts only what it restored, not the
\* default it fell back to.
LoadFiresWhenRestored(fault) ==
    fault \notin {"log", "read", "compute", "fire"}
      /\ ent'.current_option # _default_priority_option(lib)

\* Whether load_value_initially gets to line 135 and hass.bus.fire returns.
LoadFires(fault) == fault \notin {"log", "read", "compute", "fire"}

\* Whether async_select_option gets to line 148 and hass.bus.fire returns.
SelectFires(fault) == fault \notin {"log", "fire"}

\* An async_select_option that keeps the current option when the new one is
\* not advertised.
SelectedOptionValidated(before, option, fault) ==
    IF SelectFires(fault) /\ \E i \in 1..Len(ent.options) : ent.options[i] = option
    THEN option ELSE before

\* The current option async_select_option leaves behind, line 150.
SelectedOption(before, option, fault) ==
    IF SelectFires(fault) THEN option ELSE before

\* How the calls so far ended, told from the step that raised: a call that
\* raised at the refresh had fired its event, a load_value_initially that
\* raised inside the try or at the fire had assigned without firing.
\* `unsynced` holds from such a call until the next event.
Count(handler, fault) ==
    LET after == fault = "refresh"
        silent == handler = "load_value_initially"
                    /\ fault \in {"read", "compute", "fire"}
    IN  [completed |-> stats.completed + (IF fault = "none" THEN 1 ELSE 0),
         raised_after_fire |->
             stats.raised_after_fire + (IF after THEN 1 ELSE 0),
         raised_before_fire |->
             stats.raised_before_fire
               + (IF fault # "none" /\ ~after THEN 1 ELSE 0),
         unsynced |-> IF fault \in {"none", "refresh"} THEN FALSE
                      ELSE stats.unsynced \/ silent]

Calls == stats.completed + stats.raised_after_fire + stats.raised_before_fire

\* ClimatePriority.load_value_initially(latest_state)
LoadValueInitially(state, fault) ==
    /\ Calls < MaxCalls
    /\ LET option == LoadedOption(lib, ent.current_option, state, fault)
       IN  /\ ent' = [ent EXCEPT !.current_option = option]
           /\ events' = IF LoadFires(fault)
                        THEN Append(events, BusEvent(ent.event_id, option))
                        ELSE events
           /\ refreshes' = IF fault = "none" THEN refreshes + 1 ELSE refreshes
           /\ stats' = Count("load_value_initially", fault)
           /\ last' = CallRecord("load_value_initially", state, fault,
                                 IF fault \in {"read", "compute"}
                                 THEN Reraise(ExceptionAt(fault))
                                 ELSE ExceptionAt(fault))
    /\ UNCHANGED <<enumVars, setupVars>>

\* ClimatePriority.async_select_option(option)
AsyncSelectOption(option, fault) ==
    /\ Calls < MaxCalls
    /\ events' = IF SelectFires(fault)
                 THEN Append(events, BusEvent(ent.event_id, option))
                 ELSE events
    /\ ent' = [ent EXCEPT !.current_option =
                   SelectedOption(ent.current_option, option, fault)]
    /\ refreshes' = IF fault = "none" THEN refreshes + 1 ELSE refreshes
    /\ stats' = Count("async_select_option", fault)
    /\ last' = CallRecord("async_select_option", option, fault,
                          ExceptionAt(fault))
    /\ UNCHANGED <<enumVars, setupVars>>

\* The host serves one schedule_update_ha_state request: it reads the entity's
\* state and writes it to the state machine.
WriteHaState ==
    /\ refreshes > 0
    /\ refreshes' = refreshes - 1
    /\ UNCHANGED <<ent, events, stats, last, enumVars, setupVars>>

----------------------------------------------------------------------------
(* async_setup_entry, select.py lines 76-105 *)

DeviceIds == {"FF-AA-80-01", "FF-AA-80-02"}

\* Where the setup of one device raises: nowhere, in DeviceConf(entity_config)
\* or in ClimatePriority(...).
DeviceFaults == {"none", "DeviceConf", "ClimatePriority"}

DeviceEntries == [id : DeviceIds, fault : DeviceFaults]

\* config: whether Platform.CLIMATE is a key, and the list under it.
Configs ==
    { [has_climate |-> h, climate |-> c] :
        h \in BOOLEAN,
        c \in UNION { [1..n -> DeviceEntries] : n \in 0..MaxDevices } }

LogRecord(level, text, dev, item) ==
    [level |-> level, text |-> text, dev |-> dev, item |-> item]

\* A loop whose try encloses the for statement: after the first exception no
\* further device is set up.
SetupDeviceTryAroundLoop(l, entity_config, item, es, lg) ==
    LET dev_config == IF entity_config.fault = "DeviceConf" THEN None
                      ELSE entity_config.id
        except == [entities |-> es,
                   log |-> lg \o
                     << LogRecord("warning", "Could not load configuration",
                                  StrOfId(dev_config), item),
                        LogRecord("critical", "exception", None, item) >>]
    IN  IF \E k \in 1..Len(lg) : lg[k].level = "critical"
        THEN [entities |-> es, log |-> lg]
        ELSE IF entity_config.fault = "DeviceConf" THEN except
        ELSE IF Len(_priority_options(l)) = 0
        THEN [entities |-> es,
              log |-> Append(lg,
                  LogRecord("warning", "Controller priorities not supported",
                            StrOfId(dev_config), item))]
        ELSE IF entity_config.fault = "ClimatePriority" THEN except
        ELSE [entities |-> Append(es, ClimatePriority(l, dev_config)),
              log |-> lg]

\* A loop body without the test of line 93.
SetupDeviceWithoutOptionTest(l, entity_config, item, es, lg) ==
    LET dev_config == IF entity_config.fault = "DeviceConf" THEN None
                      ELSE entity_config.id
        except == [entities |-> es,
                   log |-> lg \o
                     << LogRecord("warning", "Could not load configuration",
                                  StrOfId(dev_config), item),
                        LogRecord("critical", "exception", None, item) >>]
    IN  IF entity_config.fault = "DeviceConf" THEN except
        ELSE IF entity_config.fault = "ClimatePriority" THEN except
        ELSE [entities |-> Append(es, ClimatePriority(l, dev_config)),
              log |-> lg]

\* One pass of the loop body, lines 90-101, for entity_config: the entities
\* list and the log records it leaves.
SetupDevice(l, entity_config, item, es, lg) ==
    LET dev_config == IF entity_config.fault = "DeviceConf" THEN None
                      ELSE entity_config.id
        except == [entities |-> es,
                   log |-> lg \o
                     << LogRecord("warning", "Could not load configuration",
                                  StrOfId(dev_config), item),
                        LogRecord("critical", "exception", None, item) >>]
    IN  IF entity_config.fault = "DeviceConf" THEN except
        ELSE IF Len(_priority_options(l)) = 0
        THEN [entities |-> es,
              log |-> Append(lg,
                  LogRecord("warning", "Controller priorities not supported",
                            StrOfId(dev_config), item))]
        ELSE IF entity_config.fault = "ClimatePriority" THEN except
        ELSE [entities |-> Append(es, ClimatePriority(l, dev_config)),
              log |-> lg]

\* validate_actuators_dev_and_sender_id(entities): the list as it leaves it.
validate_actuators_dev_and_sender_id(es) == es

\* Lines 82-88: entities = [] and the test for the climate platform.
SetupBegin ==
    /\ pc = "begin"
    /\ entities' = <<>>
    /\ idx' = 1
    /\ pc' = IF config.has_climate /\ Len(config.climate) > 0
             THEN "loop" ELSE "finish"
    /\ UNCHANGED <<config, log, added, enumVars, entityVars>>

\* One iteration of the for loop, lines 89-101.
SetupLoop ==
    /\ pc = "loop"
    /\ LET r == SetupDevice(lib, config.climate[idx], idx, entities, log)
       IN  /\ entities' = r.entities
           /\ log' = r.log
    /\ idx' = idx + 1
    /\ pc' = IF idx < Len(config.climate) THEN "loop" ELSE "finish"
    /\ UNCHANGED <<config, added, enumVars, entityVars>>

\* Lines 103-105.
SetupFinish ==
    /\ pc = "finish"
    /\ added' = Append(added, validate_actuators_dev_and_sender_id(entities))
    /\ pc' = "done"
    /\ UNCHANGED <<config, idx, entities, log, enumVars, entityVars>>

----------------------------------------------------------------------------
(* Calls of the translation helpers *)

NoHelperCall ==
    [fn |-> "none", option |-> None, member |-> 0, raised |-> FALSE,
     ret_option |-> None, ret_member |-> 0, ret_list |-> <<>>]

\* The strings a caller may pass as an option.
OptionStrings ==
    {None, "", "0", "HOME", "Auto", "AUTO", "(1, 'Auto')", "Comfort"}

\* Member i of the located enum; None for i = 0.
MemberAt(l, i) ==
    IF i = 0 THEN NonePriority
    ELSE _get_controller_priority_enum(l).members[i]

MemberIndices(l) == 1..Len(_get_controller_priority_enum(l).members)

CallPriorityToOption(i) ==
    /\ call.fn = "none"
    /\ call' = [NoHelperCall EXCEPT
                   !.fn = "_priority_to_option", !.member = i,
                   !.ret_option = _priority_to_option(MemberAt(lib, i))]
    /\ UNCHANGED <<lib, setupVars, entityVars>>

CallPriorityFromOption(o) ==
    /\ call.fn = "none"
    /\ LET r == _priority_from_option(lib, o)
       IN  call' = [NoHelperCall EXCEPT
                       !.fn = "_priority_from_option", !.option = o,
                       !.raised = r.raised, !.ret_member = r.ret]
    /\ UNCHANGED <<lib, setupVars, entityVars>>

\* _priority_from_option(_priority_to_option(m)) for member i.
CallRoundTrip(i) ==
    /\ call.fn = "none"
    /\ LET o == _priority_to_option(MemberAt(lib, i))
           r == _priority_from_option(lib, o)
       IN  call' = [NoHelperCall EXCEPT
                       !.fn = "round_trip", !.member = i, !.option = o,
                       !.raised = r.raised, !.ret_member = r.ret]
    /\ UNCHANGED <<lib, setupVars, entityVars>>

CallPriorityOptions ==
    /\ call.fn = "none"
    /\ call' = [NoHelperCall EXCEPT
                   !.fn = "_priority_options",
                   !.ret_list = _priority_options(lib)]
    /\ UNCHANGED <<lib, setupVars, entityVars>>

CallDefaultPriorityOption ==
    /\ call.fn = "none"
    /\ call' = [NoHelperCall EXCEPT
                   !.fn = "_default_priority_option",
                   !.ret_option = _default_priority_option(lib)]
    /\ UNCHANGED <<lib, setupVars, entityVars>>

\* The caller takes the result.
Return ==
    /\ call.fn # "none"
    /\ call' = NoHelperCall
    /\ UNCHANGED <<lib, setupVars, entityVars>>

----------------------------------------------------------------------------
(* Specifications *)

\* Library shapes for the setup routine and the entity: no enum under either
\* name, an enum without members, one with AUTO, one without AUTO under the
\* older name.
LibNone == [ControllerPriority |-> Missing, Controller_Priority |-> Missing]
LibEmpty == [ControllerPriority |-> EmptyEnum, Controller_Priority |-> Missing]
LibAuto ==
    [ControllerPriority |->
        [isNone |-> FALSE, find |-> "lookup",
         members |->
           << [name |-> "HOME", description |-> None, label |-> None,
               value |-> IntV(0)],
              [name |-> "AUTO", description |-> None, label |-> None,
               value |-> TupV(1, "Auto")] >>],
     Controller_Priority |-> Missing]
LibNoAuto ==
    [ControllerPriority |-> Missing,
     Controller_Priority |->
        [isNone |-> FALSE, find |-> "absent",
         members |->
           << [name |-> "HOME", description |-> None, label |-> None,
               value |-> IntV(0)] >>]]
SmallLibs == {LibNone, LibEmpty, LibAuto, LibNoAuto}

NoConfig == [has_climate |-> FALSE, climate |-> <<>>]
NoStats == [completed |-> 0, raised_after_fire |-> 0, raised_before_fire |-> 0,
            unsynced |-> FALSE]

InitHelpers == call = NoHelperCall

InitSetup ==
    /\ pc = "begin"
    /\ idx = 1
    /\ entities = <<>>
    /\ log = <<>>
    /\ added = <<>>

\* The entity as __init__ leaves it, before any handler ran.
InitEntity ==
    /\ ent = ClimatePriority(lib, TestDevice)
    /\ events = <<>>
    /\ stats = NoStats
    /\ last = NoCall
    /\ refreshes = 0

InitEnum ==
    /\ \E n \in 0..MaxMembers : \E ms \in [1..n -> Members] :
         /\ DistinctNames(ms)
         /\ \E f \in FindKinds, p \in Placements :
                lib = Place(p, [isNone |-> FALSE, members |-> ms, find |-> f])
    /\ config = NoConfig
    /\ InitHelpers /\ InitSetup /\ InitEntity

NextEnum ==
    \/ \E i \in {0} \cup MemberIndices(lib) : CallPriorityToOption(i)
    \/ \E o \in OptionStrings : CallPriorityFromOption(o)
    \/ \E i \in MemberIndices(lib) : CallRoundTrip(i)
    \/ CallPriorityOptions
    \/ CallDefaultPriorityOption
    \/ Return

SpecEnum == InitEnum /\ [][NextEnum]_vars

InitPlatform ==
    /\ lib \in SmallLibs
    /\ config \in Configs
    /\ InitHelpers /\ InitSetup /\ InitEntity

NextPlatform == SetupBegin \/ SetupLoop \/ SetupFinish

SpecSetup == InitPlatform /\ [][NextPlatform]_vars

InitHandlers ==
    /\ lib \in SmallLibs
    /\ config = NoConfig
    /\ InitHelpers /\ InitSetup /\ InitEntity

NextHandlers ==
    \/ \E s \in States, f \in LoadFaults : LoadValueInitially(s, f)
    \/ \E o \in Selections, f \in SelectFaults : AsyncSelectOption(o, f)
    \/ WriteHaState

SpecEntity == InitHandlers /\ [][NextHandlers]_vars

----------------------------------------------------------------------------
(* Properties of the handlers *)

Located == _get_controller_priority_enum(lib)
RangeOf(seq) == { seq[i] : i \in 1..Len(seq) }
LastEvent == events[Len(events)]

\* C1: a call of async_select_option(s) that completes leaves the current
\* option equal to s and has fired exactly one event, on the entity's
\* event_id, with payload {"priority": s}, whether or not s is an advertised
\* option.
C1_SelectAcceptsAnyOption ==
    (last.handler = "async_select_option" /\ last.fault = "none") =>
        /\ ent.current_option = last.arg
        /\ Len(events) = last.fired + 1
        /\ LastEvent = BusEvent(get_bus_event_type(ent.dev_id), last.arg)

C1_Witness ==
    /\ last.handler = "async_select_option" /\ last.fault = "none"
    /\ last.arg \notin RangeOf(ent.options)
    /\ ent.current_option = last.arg
    /\ Len(events) >= 2

\* C2: a call of load_value_initially that completes leaves the persisted
\* state as the current option when it is present and not "unknown", the
\* default option otherwise, and has fired exactly one event whose payload is
\* the resulting current option.
C2_RestoreAdoptsStateOrDefault ==
    (last.handler = "load_value_initially" /\ last.fault = "none") =>
        /\ ent.current_option =
               IF last.arg # None /\ last.arg # "unknown" THEN last.arg
               ELSE _default_priority_option(lib)
        /\ Len(events) = last.fired + 1
        /\ LastEvent = BusEvent(get_bus_event_type(ent.dev_id),
                                ent.current_option)

C2_Witness ==
    /\ last.handler = "load_value_initially" /\ last.fault = "none"
    /\ last.arg = "unknown"
    /\ last.before = "Comfort"
    /\ ent.current_option = "Auto"
    /\ LastEvent.priority = "Auto"

\* C3: whenever load_value_initially ends by raising, at whatever step, the
\* current option on exit is the default option and the exception that
\* reaches the host is the one that arose.
C3_FallbackOnAnyException ==
    (last.handler = "load_value_initially" /\ last.fault # "none") =>
        /\ ent.current_option = _default_priority_option(lib)
        /\ last.exception = ExceptionAt(last.fault)

\* C10 as stated: between handler calls the number of events fired equals the
\* number of calls that completed, and the payload of the most recent event
\* is the current option.
C10_EventsMatchCompletedCalls ==
    /\ Len(events) = stats.completed
    /\ events # <<>> => LastEvent.priority = ent.current_option

\* C10 as amended: the number of events fired is the number of calls that
\* completed plus the number that raised at the refresh request; the payload
\* of the most recent event is the current option unless a later
\* load_value_initially raised between its assignment and its fire; and the
\* current option changes only in a step of one of the two handlers.
C10_EventsFollowHandlers ==
    /\ [](/\ Len(events) = stats.completed + stats.raised_after_fire
          /\ (events # <<>> /\ ~stats.unsynced) =>
                 LastEvent.priority = ent.current_option)
    /\ [][ent'.current_option # ent.current_option => Calls' = Calls + 1]_vars

C10_Witness ==
    /\ stats.completed = 1
    /\ stats.raised_after_fire = 1
    /\ stats.raised_before_fire = 1
    /\ Len(events) = 2
    /\ ~stats.unsynced
    /\ ent.current_option # ClimatePriority(lib, TestDevice).current_option

----------------------------------------------------------------------------
(* Properties of async_setup_entry *)

OptionsAvailable == Len(_priority_options(lib)) > 0

\* The ids of the configured devices whose setup does not raise, in order.
RECURSIVE LoadableIds(_)
LoadableIds(c) ==
    IF c = <<>> THEN <<>>
    ELSE (IF c[1].fault = "none" THEN <<c[1].id>> ELSE <<>>)
           \o LoadableIds(Tail(c))

IdsOf(es) == [i \in 1..Len(es) |-> es[i].dev_id]

\* The log records of one level written while entry `item` was processed.
Logged(level, item) ==
    { k \in 1..Len(log) : log[k].level = level /\ log[k].item = item }

\* The entries of the climate list the loop has been through.
Processed ==
    IF ~config.has_climate \/ pc = "begin" THEN {}
    ELSE IF pc = "loop" THEN 1..(idx - 1)
    ELSE 1..Len(config.climate)

SetupRaises(entry) ==
    \/ entry.fault = "DeviceConf"
    \/ entry.fault = "ClimatePriority" /\ OptionsAvailable

LogsOfRaisingDevices(unnamed) ==
    \A i \in Processed :
        SetupRaises(config.climate[i]) =>
            /\ Cardinality(Logged("critical", i)) = 1
            /\ Cardinality(Logged("warning", i)) = 1
            /\ \A k \in Logged("warning", i) :
                  log[k].dev = IF config.climate[i].fault = "DeviceConf"
                               THEN unnamed
                               ELSE config.climate[i].id

\* C5 as stated: each device that raises gets one warning and one critical
\* record, the warning naming its id, or "unknown" when DeviceConf raised.
C5_WarningNamesUnknown == LogsOfRaisingDevices("unknown")

\* C5 as amended: each device that raises gets one warning and one critical
\* record, the warning naming its id, or "None" when DeviceConf raised.
C5_WarningNamesNone == LogsOfRaisingDevices("None")

C5_Witness ==
    /\ pc = "done"
    /\ \E i, j \in Processed :
          /\ config.climate[i].fault = "DeviceConf"
          /\ config.climate[j].fault = "ClimatePriority"
          /\ SetupRaises(config.climate[j])
          /\ \E k \in Logged("warning", i) : log[k].dev = "None"
          /\ \E k \in Logged("warning", j) : log[k].dev = config.climate[j].id

\* C9: with no priority option available, setup creates no entity: it calls
\* async_add_entities once, with the empty list, and has logged one warning
\* for each configured climate device.
C9_NoOptionsNoEntities ==
    (pc = "done" /\ ~OptionsAvailable) =>
        /\ added = << <<>> >>
        /\ \A i \in Processed : Cardinality(Logged("warning", i)) = 1
        /\ \A k \in 1..Len(log) : log[k].item \in Processed

C9_Witness ==
    /\ pc = "done" /\ ~OptionsAvailable
    /\ Located = EmptyEnum
    /\ Len(config.climate) = 3 /\ config.has_climate
    /\ \A i \in 1..3 : config.climate[i].fault # "DeviceConf"
    /\ Len(log) = 3
    /\ added = << <<>> >>

----------------------------------------------------------------------------
(* Properties of the translation helpers *)

Display(i) == _priority_to_option(Located.members[i])

\* Whether member j answers to the string d in the scan of
\* _priority_from_option.
AnswersTo(j, d) ==
    \/ d = Display(j)
    \/ d = Located.members[j].name
    \/ d = StrOfValue(Located.members[j].value)

\* No other member answers to member i's display string.
Unambiguous(i) ==
    \A j \in MemberIndices(lib) \ {i} : ~AnswersTo(j, Display(i))

\* C6 as stated: _priority_from_option(_priority_to_option(m)) is m for every
\* member m of every enum the helpers accept.
C6_RoundTripAlways ==
    call.fn = "round_trip" =>
        ~call.raised /\ call.ret_member = call.member

\* C6 as amended: the round trip returns m when m's display string is not
\* the display string, the name or the str(value) of another member.
C6_RoundTripWhenUnambiguous ==
    (call.fn = "round_trip" /\ Unambiguous(call.member)) =>
        ~call.raised /\ call.ret_member = call.member

C6_Witness ==
    /\ call.fn = "round_trip" /\ call.member = 2 /\ call.ret_member = 2
    /\ Unambiguous(2)
    /\ Located.find = "raises"
    /\ Located.members[2].description = None
    /\ Located.members[2].label = "HOME"

\* C7: _default_priority_option() returns the display string of the member
\* named AUTO when there is one, else the first of _priority_options() when
\* that is not empty, else None; a value other than None is one of
\* _priority_options().
C7_DefaultIsAutoOrFirst ==
    call.fn = "_default_priority_option" =>
        LET autos == { i \in MemberIndices(lib) :
                         Located.members[i].name = "AUTO" }
            options == _priority_options(lib)
        IN  /\ autos # {} => \A i \in autos : call.ret_option = Display(i)
            /\ (autos = {} /\ options # <<>>) => call.ret_option = options[1]
            /\ (autos = {} /\ options = <<>>) => call.ret_option = None
            /\ call.ret_option # None => call.ret_option \in RangeOf(options)

C7_Witness ==
    /\ call.fn = "_default_priority_option"
    /\ Len(Located.members) = 2
    /\ Located.members[2].name = "AUTO"
    /\ call.ret_option = Display(2)
    /\ Display(2) # Display(1)

\* C8: with the enum under neither name, or with a lookup that raises or
\* finds nothing and no member answering, no helper raises:
\* _priority_options() is empty, _default_priority_option() is None and
\* _priority_from_option(o) is None.
C8_HelpersNeverRaise ==
    /\ ~call.raised
    /\ (Located.isNone /\ call.fn = "_priority_options") =>
           call.ret_list = <<>>
    /\ (Located.isNone /\ call.fn = "_default_priority_option") =>
           call.ret_option = None
    /\ (call.fn = "_priority_from_option"
          /\ \A j \in MemberIndices(lib) : ~AnswersTo(j, call.option)) =>
           call.ret_member = 0

C8_Witness ==
    /\ call.fn = "_priority_from_option"
    /\ Located.find \in {"raises", "lookup_or_raise"}
    /\ Len(Located.members) = 2
    /\ call.option = "Comfort"
    /\ call.ret_member = 0 /\ ~call.raised

=============================================================================
